---- MODULE Spec2Model ----
(***************************************************************************)
(* Model of FileUploaderComponent (src/src/app/file-uploader.component.ts) *)
(* : the three channels (initialFilesChanges$, uploadedFiles$,             *)
(* removedFiles$), the derived files$ stream, the updates$ notifier wired  *)
(* in ngOnInit, the validation pipeline wired in ngAfterViewInit           *)
(* (switchMap(validateFiles) over combineLatest of validateFile), and the  *)
(* public remove / removeInitial methods.                                  *)
(***************************************************************************)
EXTENDS Integers, Sequences, FiniteSets, TLC

\* ------------------------------------------------------------------ bounds
MaxBatch == 2
MaxSelect == 2
MaxRemove == 2

\* ------------------------------------------------------------ input space
\* The File objects a selection can hold.  Each has a fixed size and declared
\* MIME type (a string, written as a sequence of characters).
Files == {1, 2, 3, 4}

FileSize(f) == IF f = 3 THEN 2000 ELSE 500

FileType(f) ==
  CASE f = 2 -> <<"t","e","x","t","/","p","l","a","i","n">>
    [] f = 4 -> <<"a","p","p","l","i","c","a","t","i","o","n","/","x","-",
                  "a","p","p","l","e","-","d","i","s","k","i","m","a","g","e">>
    [] OTHER -> <<"i","m","a","g","e","/","p","n","g">>

FileName(f) == f

\* Values of the fileSizeLimit input: 0 stands for "not configured" (falsy).
FileSizeLimits == {0, 1000}

\* ------------------------------------------------------- IUploadedFile
NoFile == 0
NoImage == "undefined"
NoError == [name |-> 0, errorMessage |-> "undefined"]
None == [id |-> <<0, 0>>, file |-> NoFile, image |-> NoImage, error |-> NoError]

\* { file, image } built by image.onload; id is the object's identity.
SuccessEntry(id, f) ==
  [id |-> id, file |-> f, image |-> "HTMLImageElement", error |-> NoError]

\* { error: { name, errorMessage } } passed to observer.error.
ErrorEntry(id, f, msg) ==
  [id |-> id, file |-> NoFile, image |-> NoImage,
   error |-> [name |-> FileName(f), errorMessage |-> msg]]

HasError(e) == e.error # NoError

\* Host-supplied initialValues: plain objects, image a plain partial object.
InitA == [id |-> <<0, 1>>, file |-> 5, image |-> "a.png", error |-> NoError]
InitE == [id |-> <<0, 2>>, file |-> NoFile, image |-> NoImage,
          error |-> [name |-> 7, errorMessage |-> "INVALID_IMAGE"]]

\* [def |-> FALSE] is an initialValues input left undefined.
InitialValuesChoices ==
  { [def |-> FALSE, v |-> <<>>],
    [def |-> TRUE, v |-> <<InitA, InitE>>] }

\* FileLists a change event can carry: distinct files, at most MaxBatch of
\* them; the empty list is the change event of a cleared selection.
RECURSIVE SeqsUpTo(_)
SeqsUpTo(n) ==
  IF n = 0 THEN { <<>> }
  ELSE LET shorter == SeqsUpTo(n - 1)
       IN shorter \cup
          { Append(s, f) : s \in { t \in shorter : Len(t) = n - 1 }, f \in Files }

Distinct(s) == \A i, j \in 1..Len(s) : i # j => s[i] # s[j]

FileLists == { s \in SeqsUpTo(MaxBatch) : Distinct(s) }

\* The file lists over the two image files, one of them above the limit.
ImageFileLists ==
  { s \in FileLists : \A k \in 1..Len(s) : s[k] \in {1, 3} }

\* ------------------------------------------------------------------- state
VARIABLES
  pc,             \* lifecycle: created, inited, viewInit, destroyed
  fileSizeLimit,  \* @Input fileSizeLimit
  initialValues,  \* @Input initialValues
  initialFiles,   \* latest of initialFilesChanges$.pipe(startWith([]))
  uploadedFiles,  \* latest of uploadedFiles$.pipe(startWith([]))
  uploadedSeen,   \* uploadedFiles$ has emitted (updates$ sees an array, not 0)
  removedFiles,   \* the array accumulated by scan in removedFiles$
  files,          \* latest value of files$ (shareReplay)
  prev,           \* distinctUntilChanged's previous value
  emitCount,      \* number of calls of onFileChanges.emit
  lastEmit,       \* payload of the latest call of onFileChanges.emit
  nsel,           \* number of change events handled
  batch,          \* the inner observable switchMap holds (the latest batch)
  orphans         \* pending FileReader/Image callbacks of unsubscribed batches

channels == <<uploadedFiles, uploadedSeen, removedFiles, files>>
notifier == <<prev, emitCount, lastEmit>>
inputs == <<fileSizeLimit, initialValues, initialFiles>>
pipeline == <<nsel, batch, orphans>>

vars == <<pc, fileSizeLimit, initialValues, initialFiles, uploadedFiles,
          uploadedSeen, removedFiles, files, prev, emitCount, lastEmit,
          nsel, batch, orphans>>

\* --------------------------------------------------------- pure functions
\* isImage: mimeType.match(/image\/*/) !== null.  The pattern is unanchored
\* and the trailing "/*" means "zero or more slashes", so the match succeeds
\* exactly when the string contains "image".
ImageWord == <<"i","m","a","g","e">>

IsImage(mimeType) ==
  \E k \in 1..(Len(mimeType) - Len(ImageWord) + 1) :
     SubSeq(mimeType, k, k + Len(ImageWord) - 1) = ImageWord

\* this.fileSizeLimit && this.validateSize(file, observer): TRUE when
\* observer.error(INVALID_SIZE) is called.
ValidateSize(f, limit) == limit # 0 /\ FileSize(f) > limit

\* Faulty variant of FilesMap: the test on uploadedFiles.length inverted.
FilesMap_Swapped(initialF, uploadedF, removedF) ==
  LET filesource == IF Len(uploadedF) # 0 THEN initialF ELSE uploadedF
  IN SelectSeq(filesource,
               LAMBDA file : ~ \E k \in 1..Len(removedF) : removedF[k] = file)

\* Faulty variant of FilesMap: the uploaded entries appended to the initial ones.
FilesMap_Merged(initialF, uploadedF, removedF) ==
  SelectSeq(initialF \o uploadedF,
            LAMBDA file : ~ \E k \in 1..Len(removedF) : removedF[k] = file)

\* Faulty variant of FilesMap: a removed entry is looked up by its file, not by
\* its identity.
FilesMap_ByFile(initialF, uploadedF, removedF) ==
  LET filesource == IF Len(uploadedF) = 0 THEN initialF ELSE uploadedF
  IN SelectSeq(filesource,
               LAMBDA file : ~ \E k \in 1..Len(removedF) :
                                 removedF[k].file = file.file)

\* Faulty variant of FilesMap: an entry that carries an error is never excluded.
FilesMap_KeepFailures(initialF, uploadedF, removedF) ==
  LET filesource == IF Len(uploadedF) = 0 THEN initialF ELSE uploadedF
  IN SelectSeq(filesource,
               LAMBDA file : \/ HasError(file)
                             \/ ~ \E k \in 1..Len(removedF) : removedF[k] = file)

\* The map of files$.
FilesMap(initialF, uploadedF, removedF) ==
  LET filesource == IF Len(uploadedF) = 0 THEN initialF ELSE uploadedF
  IN SelectSeq(filesource,
               LAMBDA file : ~ \E k \in 1..Len(removedF) : removedF[k] = file)

\* uploadedFiles.filter((files) => !files.error)
FilterValid(fs) == SelectSeq(fs, LAMBDA e : ~ HasError(e))

\* JSON.stringify of one entry: a File and an HTMLImageElement have no own
\* enumerable properties and serialize as {}, an undefined property is left
\* out, a plain image object serializes its content.
StringifyEntry(e) ==
  [file |-> IF e.file = NoFile THEN "" ELSE "{}",
   image |-> IF e.image = NoImage THEN ""
             ELSE IF e.image = "HTMLImageElement" THEN "{}" ELSE e.image,
   error |-> IF HasError(e) THEN e.error.errorMessage ELSE ""]

JSONstringify(a) == [i \in 1..Len(a) |-> StringifyEntry(a[i])]

\* Faulty variant of DistinctCompare: no two values are ever equal.
DistinctCompare_Never(a, b) == FALSE

\* The comparator given to distinctUntilChanged.
DistinctCompare(a, b) == JSONstringify(a) = JSONstringify(b)

\* Faulty variant of UpdatesMap: the start values pass the filter as well.
UpdatesMap_Always(upload, removed) == TRUE

\* The map of updates$: !!upload || !!removedFiles, where each argument is
\* TRUE when the stream's latest value is an array and FALSE when it is 0.
UpdatesMap(upload, removed) == upload \/ removed

\* Faulty variant of CombineLatest: the values in the order in which they arrived.
CombineLatest_ByCompletion(b) ==
  [i \in 1..Len(b.jobs) |->
     IF i <= Len(b.order) THEN b.jobs[b.order[i]].res ELSE b.jobs[i].res]

\* combineLatest(validatedFiles): the latest value of each inner observable,
\* in the order of the input array.
CombineLatest(b) == [i \in 1..Len(b.jobs) |-> b.jobs[i].res]

\* Faulty variant of AllEmitted: one value is enough for combineLatest to emit.
AllEmitted_Any(b) == \E i \in 1..Len(b.jobs) : b.jobs[i].res # None

AllEmitted(b) == \A i \in 1..Len(b.jobs) : b.jobs[i].res # None

\* ------------------------------------------------------------ the notifier
\* A value of updates$ entering the chain subscribed in ngOnInit:
\* filter(updates), withLatestFrom(files$), map(filter !error),
\* distinctUntilChanged(JSON compare), subscribe(emit).  upload and removed
\* say whether updates$' two inputs hold an array (TRUE) or the start value 0.
Deliver(latestFiles, upload, removed) ==
  LET result == FilterValid(latestFiles)
  IN IF /\ UpdatesMap(upload, removed)
        /\ ~ (prev.has /\ DistinctCompare(prev.val, result))
     THEN /\ prev' = [has |-> TRUE, val |-> result]
          /\ emitCount' = emitCount + 1
          /\ lastEmit' = result
     ELSE UNCHANGED notifier

\* One emission of updates$: takeUntil(unsubscribe) lets it through between
\* ngOnInit and ngOnDestroy.
Notify(latestFiles, upload, removed) ==
  IF pc \in {"inited", "viewInit"}
  THEN Deliver(latestFiles, upload, removed)
  ELSE UNCHANGED notifier

\* Faulty variant of UploadedNext: updates$ emits before files$ has recomputed.
UploadedNext_Stale(arr) ==
  /\ uploadedFiles' = arr
  /\ uploadedSeen' = TRUE
  /\ files' = FilesMap(initialFiles, arr, removedFiles)
  /\ Notify(files, TRUE, Len(removedFiles) > 0)
  /\ UNCHANGED removedFiles

\* uploadedFiles$.next(arr): files$ (subscribed first) recomputes, then
\* updates$ emits.
UploadedNext(arr) ==
  /\ uploadedFiles' = arr
  /\ uploadedSeen' = TRUE
  /\ files' = FilesMap(initialFiles, arr, removedFiles)
  /\ Notify(FilesMap(initialFiles, arr, removedFiles), TRUE, Len(removedFiles) > 0)
  /\ UNCHANGED removedFiles

\* --------------------------------------------------------------- lifecycle
NoBatch == [sub |-> FALSE, jobs |-> <<>>, order |-> <<>>]

Init ==
  /\ pc = "created"
  /\ fileSizeLimit \in FileSizeLimits
  /\ initialValues \in InitialValuesChoices
  /\ initialFiles = <<>>
  /\ uploadedFiles = <<>>
  /\ uploadedSeen = FALSE
  /\ removedFiles = <<>>
  /\ files = <<>>
  /\ prev = [has |-> FALSE, val |-> <<>>]
  /\ emitCount = 0
  /\ lastEmit = <<>>
  /\ nsel = 0
  /\ batch = NoBatch
  /\ orphans = {}

\* Faulty variant of NgOnInit: the initial channel is an input of updates$ too.
NgOnInit_Publishing ==
  /\ pc = "created"
  /\ pc' = "inited"
  /\ initialFiles' = IF initialValues.def THEN initialValues.v ELSE <<>>
  /\ files' = FilesMap(initialFiles', uploadedFiles, removedFiles)
  /\ IF UpdatesMap(initialValues.def, Len(removedFiles) > 0)
     THEN /\ prev' = [has |-> TRUE, val |-> FilterValid(files')]
          /\ emitCount' = emitCount + 1
          /\ lastEmit' = FilterValid(files')
     ELSE UNCHANGED notifier
  /\ UNCHANGED <<fileSizeLimit, initialValues, uploadedFiles, uploadedSeen,
                 removedFiles, pipeline>>

\* ngOnInit: push initialValues when defined, then subscribe the notifier.
\* Subscribing files$ emits its first value; updates$ delivers the combination
\* of its inputs' latest values, [0, 0] at this point, which maps to false and
\* is filtered.
NgOnInit ==
  /\ pc = "created"
  /\ pc' = "inited"
  /\ initialFiles' = IF initialValues.def THEN initialValues.v ELSE <<>>
  /\ files' = FilesMap(initialFiles', uploadedFiles, removedFiles)
  /\ Deliver(files', uploadedSeen, Len(removedFiles) > 0)
  /\ UNCHANGED <<fileSizeLimit, initialValues, uploadedFiles, uploadedSeen,
                 removedFiles, pipeline>>

\* ngAfterViewInit: subscribe to the input's change events.
NgAfterViewInit ==
  /\ pc = "inited"
  /\ pc' = "viewInit"
  /\ UNCHANGED <<inputs, channels, notifier, pipeline>>

\* ngOnDestroy: unsubscribe.next() ends both takeUntil.  The notifier chain
\* is torn down; the change-event source is released, but takeUntil sits
\* before switchMap, so an active inner observable stays subscribed.
NgOnDestroy ==
  /\ pc = "viewInit"
  /\ pc' = "destroyed"
  /\ UNCHANGED <<inputs, channels, notifier, pipeline>>

\* ------------------------------------------------------ validation pipeline
\* The job of one file: st follows the FileReader and the Image, res is what
\* the observer delivered first (None while nothing was delivered).
NewJob(b, i, f, limit) ==
  [file |-> f, st |-> "reading",
   res |-> IF ValidateSize(f, limit)
           THEN ErrorEntry(<<b, i>>, f, "INVALID_SIZE") ELSE None]

\* validateFiles(files): one validateFile(file).pipe(catchError(of)) per file,
\* combined by combineLatest.  order lists the jobs in the order in which
\* they delivered.
ValidateFiles(b, fl, limit) ==
  LET jobs == [i \in 1..Len(fl) |-> NewJob(b, i, fl[i], limit)]
      idx == [i \in 1..Len(fl) |-> i]
  IN [sub |-> TRUE, jobs |-> jobs,
      order |-> SelectSeq(idx, LAMBDA i : jobs[i].res # None)]

Pending(st) == st \in {"reading", "decoding"}

\* The callbacks still pending in batch b (number n) once it is unsubscribed.
Orphaned(n, b) ==
  { [id |-> <<n, i>>, file |-> b.jobs[i].file, st |-> b.jobs[i].st] :
      i \in { j \in 1..Len(b.jobs) : Pending(b.jobs[j].st) } }

\* A change event: switchMap unsubscribes the previous inner observable and
\* subscribes validateFiles(files).  combineLatest of no observable completes
\* without a value; when every file fails the size check the result is
\* delivered during the subscription.
Change(fl) ==
  /\ pc = "viewInit"
  /\ nsel < MaxSelect
  /\ LET B == ValidateFiles(nsel + 1, fl, fileSizeLimit)
         fire == Len(fl) > 0 /\ AllEmitted(B)
         done == Len(fl) = 0 \/ fire
     IN /\ batch' = [B EXCEPT !.sub = ~ done]
        /\ IF fire
           THEN UploadedNext(CombineLatest(B))
           ELSE UNCHANGED <<channels, notifier>>
  /\ nsel' = nsel + 1
  /\ orphans' = orphans \cup Orphaned(nsel, batch)
  /\ UNCHANGED <<pc, inputs>>

\* Faulty variant of Signal: a later observer call replaces an earlier delivery.
Signal_Overwrite(i, st, entry) ==
  LET open == batch.sub
      B2 == [batch EXCEPT !.jobs[i].st = st,
                          !.jobs[i].res = IF open THEN entry ELSE @,
                          !.order = IF open /\ batch.jobs[i].res = None
                                    THEN Append(@, i) ELSE @]
      fire == open /\ AllEmitted(B2)
  IN /\ batch' = [B2 EXCEPT !.sub = IF fire THEN FALSE ELSE @]
     /\ IF fire
        THEN UploadedNext(CombineLatest(B2))
        ELSE UNCHANGED <<channels, notifier>>
     /\ UNCHANGED <<pc, inputs, nsel, orphans>>

\* Job i of the batch moves to state st and calls its observer with entry.
\* The call is ignored when the observer is closed (it already delivered).
\* When the last job delivers, combineLatest emits the batch, the subscriber
\* pushes it to uploadedFiles$, and the inner observable completes.
Signal(i, st, entry) ==
  LET open == batch.sub /\ batch.jobs[i].res = None
      B2 == [batch EXCEPT !.jobs[i].st = st,
                          !.jobs[i].res = IF open THEN entry ELSE @,
                          !.order = IF open THEN Append(@, i) ELSE @]
      fire == open /\ AllEmitted(B2)
  IN /\ batch' = [B2 EXCEPT !.sub = IF fire THEN FALSE ELSE @]
     /\ IF fire
        THEN UploadedNext(CombineLatest(B2))
        ELSE UNCHANGED <<channels, notifier>>
     /\ UNCHANGED <<pc, inputs, nsel, orphans>>

\* fileReader.onerror
ReaderOnerror(i) ==
  /\ batch.jobs[i].st = "reading"
  /\ Signal(i, "readFailed",
            ErrorEntry(<<nsel, i>>, batch.jobs[i].file, "INVALID_FILE"))

\* fileReader.onload -> validateFileType: an image type starts the decode
\* (image.src = ...), any other type is an INVALID_IMAGE error at once.
ReaderOnload(i) ==
  /\ batch.jobs[i].st = "reading"
  /\ IF IsImage(FileType(batch.jobs[i].file))
     THEN /\ batch' = [batch EXCEPT !.jobs[i].st = "decoding"]
          /\ UNCHANGED <<pc, inputs, channels, notifier, nsel, orphans>>
     ELSE Signal(i, "notImage",
                 ErrorEntry(<<nsel, i>>, batch.jobs[i].file, "INVALID_IMAGE"))

\* image.onload
ImageOnload(i) ==
  /\ batch.jobs[i].st = "decoding"
  /\ Signal(i, "decoded", SuccessEntry(<<nsel, i>>, batch.jobs[i].file))

\* image.onerror
ImageOnerror(i) ==
  /\ batch.jobs[i].st = "decoding"
  /\ Signal(i, "decodeFailed",
            ErrorEntry(<<nsel, i>>, batch.jobs[i].file, "INVALID_IMAGE"))

\* Faulty variant of OrphanCallback: the batch was not unsubscribed, the outcome
\* of its file is pushed to uploadedFiles$.
OrphanCallback_Applies(o, ok) ==
  /\ o \in orphans
  /\ IF o.st = "reading" /\ ok /\ IsImage(FileType(o.file))
     THEN /\ orphans' = (orphans \ {o}) \cup {[o EXCEPT !.st = "decoding"]}
          /\ UNCHANGED <<channels, notifier>>
     ELSE /\ orphans' = orphans \ {o}
          /\ UploadedNext(<<IF ok /\ o.st = "decoding"
                            THEN SuccessEntry(o.id, o.file)
                            ELSE ErrorEntry(o.id, o.file, "INVALID_IMAGE")>>)
  /\ UNCHANGED <<pc, inputs, nsel, batch>>

\* A FileReader or Image callback of a batch that switchMap unsubscribed:
\* the handlers run as above and every observer call is ignored.  ok tells
\* onload from onerror.
OrphanCallback(o, ok) ==
  /\ o \in orphans
  /\ orphans' =
       IF o.st = "reading" /\ ok /\ IsImage(FileType(o.file))
       THEN (orphans \ {o}) \cup {[o EXCEPT !.st = "decoding"]}
       ELSE orphans \ {o}
  /\ UNCHANGED <<pc, inputs, channels, notifier, nsel, batch>>

\* ---------------------------------------------------------------- removals
Range(s) == { s[k] : k \in 1..Len(s) }

\* Faulty variant of Remove: the request replaces the removed array.
Remove_Replace(file) ==
  /\ pc \in {"inited", "viewInit", "destroyed"}
  /\ Len(removedFiles) < MaxRemove
  /\ removedFiles' = <<file>>
  /\ files' = FilesMap(initialFiles, uploadedFiles, removedFiles')
  /\ Notify(files', uploadedSeen, TRUE)
  /\ UNCHANGED <<pc, inputs, uploadedFiles, uploadedSeen, pipeline>>

\* remove(file): removedChange$.next(file); scan pushes it onto the array,
\* files$ recomputes, then updates$ emits.
Remove(file) ==
  /\ pc \in {"inited", "viewInit", "destroyed"}
  /\ Len(removedFiles) < MaxRemove
  /\ removedFiles' = Append(removedFiles, file)
  /\ files' = FilesMap(initialFiles, uploadedFiles, removedFiles')
  /\ Notify(files', uploadedSeen, TRUE)
  /\ UNCHANGED <<pc, inputs, uploadedFiles, uploadedSeen, pipeline>>

\* removeInitial(file): filters this.initialValues and emits it directly.
RemoveInitial(file) ==
  /\ pc \in {"inited", "viewInit", "destroyed"}
  /\ initialValues.def
  /\ initialValues' = [initialValues EXCEPT
                         !.v = SelectSeq(@, LAMBDA f : file # f)]
  /\ emitCount' = emitCount + 1
  /\ lastEmit' = initialValues'.v
  /\ UNCHANGED <<pc, fileSizeLimit, initialFiles, channels, prev, pipeline>>

\* ------------------------------------------------------------ specification
Jobs == 1..Len(batch.jobs)

Lifecycle ==
  \/ NgOnInit
  \/ NgAfterViewInit
  \/ NgOnDestroy

Callbacks ==
  \/ \E i \in Jobs : ReaderOnerror(i)
  \/ \E i \in Jobs : ReaderOnload(i)
  \/ \E i \in Jobs : ImageOnload(i)
  \/ \E i \in Jobs : ImageOnerror(i)
  \/ \E o \in orphans : \E ok \in BOOLEAN : OrphanCallback(o, ok)

Removals ==
  \/ \E file \in Range(files) \cup Range(removedFiles) : Remove(file)
  \/ \E file \in Range(initialValues.v) : RemoveInitial(file)

\* The whole component, selections drawn from the image files.
Next ==
  \/ Lifecycle
  \/ \E fl \in ImageFileLists : Change(fl)
  \/ Callbacks
  \/ Removals

Spec == Init /\ [][Next]_vars

\* The validation pipeline, selections drawn from every kind of file, no
\* removal requests.
PipelineNext ==
  \/ Lifecycle
  \/ \E fl \in FileLists : Change(fl)
  \/ Callbacks

PipelineSpec == Init /\ [][PipelineNext]_vars

\* The validation pipeline when every pending FileReader and Image callback
\* is eventually called by the browser.
FairPipelineSpec == PipelineSpec /\ WF_vars(Callbacks)

\* ------------------------------------------------------------------ claims
\* The entries of base that are not in the set removed, in base's order.
RECURSIVE Excluding(_, _)
Excluding(base, removed) ==
  IF base = <<>> THEN <<>>
  ELSE IF Head(base) \in removed THEN Excluding(Tail(base), removed)
  ELSE <<Head(base)>> \o Excluding(Tail(base), removed)

\* The Success entries of fs, in order.
RECURSIVE SuccessOnly(_)
SuccessOnly(fs) ==
  IF fs = <<>> THEN <<>>
  ELSE IF Head(fs).error # NoError THEN SuccessOnly(Tail(fs))
  ELSE <<Head(fs)>> \o SuccessOnly(Tail(fs))

\* Two valid file sets agree element by element on the underlying file and
\* on the image data.
StructEq(a, b) ==
  /\ Len(a) = Len(b)
  /\ \A k \in 1..Len(a) : a[k].file = b[k].file /\ a[k].image = b[k].image

\* A step in which an upload batch or a removal reaches its channel.
ChannelUpdate == uploadedFiles' # uploadedFiles \/ removedFiles' # removedFiles

NotifierSubscribed == pc \in {"inited", "viewInit"}

\* The file is above the configured size limit.
Oversize(f) == fileSizeLimit # 0 /\ FileSize(f) > fileSizeLimit

\* The declared MIME type belongs to the image/* family.
ImagePrefix == <<"i","m","a","g","e","/">>

IsImageMime(mimeType) ==
  /\ Len(mimeType) >= Len(ImagePrefix)
  /\ SubSeq(mimeType, 1, Len(ImagePrefix)) = ImagePrefix

SizeFailure(n, i, f) ==
  [id |-> <<n, i>>, file |-> NoFile, image |-> NoImage,
   error |-> [name |-> f, errorMessage |-> "INVALID_SIZE"]]

FileFailure(n, i, f) ==
  [id |-> <<n, i>>, file |-> NoFile, image |-> NoImage,
   error |-> [name |-> f, errorMessage |-> "INVALID_FILE"]]

ImageFailure(n, i, f) ==
  [id |-> <<n, i>>, file |-> NoFile, image |-> NoImage,
   error |-> [name |-> f, errorMessage |-> "INVALID_IMAGE"]]

Success(n, i, f) ==
  [id |-> <<n, i>>, file |-> f, image |-> "HTMLImageElement", error |-> NoError]

\* The entry that stands for job i of batch n, given what happened to it.
Outcome(n, i, job) ==
  IF Oversize(job.file) THEN SizeFailure(n, i, job.file)
  ELSE CASE job.st = "readFailed" -> FileFailure(n, i, job.file)
         [] job.st \in {"notImage", "decodeFailed"} -> ImageFailure(n, i, job.file)
         [] job.st = "decoded" -> Success(n, i, job.file)
         [] OTHER -> None

AllResolved(b) == \A i \in 1..Len(b.jobs) : b.jobs[i].res # None

\* The latest batch has ended (a selection of no file never starts one).
Completed == Len(batch.jobs) > 0 /\ ~ batch.sub

\* C1: in every state files$ holds the uploaded entries if there are any,
\* otherwise the initial entries, without the entries in the removed set, in
\* the order of that base sequence.
C1_CurrentFileSet ==
  files = Excluding(IF uploadedFiles # <<>> THEN uploadedFiles ELSE initialFiles,
                    Range(removedFiles))

\* Two uploaded entries over a non-empty initial set, the first one removed.
C1_Witness ==
  /\ initialFiles # <<>>
  /\ Len(uploadedFiles) = 2
  /\ uploadedFiles[1] \in Range(removedFiles)
  /\ files = <<uploadedFiles[2]>>

C3_StopFreezesChannels ==
  [][(pc = "destroyed" /\ batch' # batch) =>
       (uploadedFiles' = uploadedFiles /\ files' = files)]_vars

\* C4: after ngOnDestroy no step calls onFileChanges.emit.
C4_NoEmitAfterStop ==
  [][pc = "destroyed" => emitCount' = emitCount]_vars

\* C5: while the notifier is subscribed, an upload or removal whose valid
\* file set differs (by file and image data) from the one last notified
\* calls onFileChanges.emit once, with the new valid file set.
C5_EveryChangeNotified ==
  [][(/\ NotifierSubscribed
      /\ ChannelUpdate
      /\ (~ prev.has \/ ~ StructEq(SuccessOnly(files'), prev.val))) =>
       (emitCount' = emitCount + 1 /\ lastEmit' = SuccessOnly(files'))]_vars

\* C6: while the notifier is subscribed, the first upload or removal calls
\* onFileChanges.emit with its valid file set, and an upload or removal whose
\* valid file set equals (by file and image data) the one the previous update
\* left calls nothing.
C6_Dedup ==
  [][(NotifierSubscribed /\ ChannelUpdate) =>
       IF ~ uploadedSeen /\ removedFiles = <<>>
       THEN emitCount' = emitCount + 1 /\ lastEmit' = SuccessOnly(files')
       ELSE StructEq(SuccessOnly(files'), SuccessOnly(files)) =>
              UNCHANGED <<emitCount, lastEmit>>]_vars

\* An upload and a removal were notified, the same removal again was not.
C6_Witness ==
  /\ pc = "viewInit"
  /\ ~ initialValues.def
  /\ uploadedSeen
  /\ Len(removedFiles) = 2
  /\ removedFiles[1] = removedFiles[2]
  /\ emitCount = 2
  /\ lastEmit = SuccessOnly(files)

\* C7: a batch that has ended left in uploadedFiles one entry per file, entry
\* i being the outcome of file i, whatever the order of completion and
\* whichever files failed.
C7_OrderAndLength ==
  Completed =>
    /\ Len(uploadedFiles) = Len(batch.jobs)
    /\ \A i \in 1..Len(batch.jobs) :
         /\ uploadedFiles[i] # None
         /\ uploadedFiles[i] = Outcome(nsel, i, batch.jobs[i])

\* The second file failed first, then the first file succeeded.
C7_Witness ==
  /\ Completed
  /\ Len(batch.jobs) = 2
  /\ batch.order = <<2, 1>>
  /\ uploadedFiles[2].error # NoError
  /\ uploadedFiles[1].error = NoError

\* C8: uploadedFiles changes only in the step in which the last file of the
\* batch gets its outcome, to the complete result; that step always changes
\* it; and a batch whose files all have their outcome changes it no more.
C8_BatchAtomic ==
  [][/\ uploadedFiles' # uploadedFiles =>
          /\ Len(batch'.jobs) > 0
          /\ AllResolved(batch')
          /\ nsel' = nsel => ~ AllResolved(batch)
          /\ uploadedFiles' = [i \in 1..Len(batch'.jobs) |-> batch'.jobs[i].res]
     /\ (nsel' = nsel /\ ~ AllResolved(batch) /\ AllResolved(batch')) =>
          uploadedFiles' # uploadedFiles
     /\ (nsel' = nsel /\ AllResolved(batch)) =>
          uploadedFiles' = uploadedFiles]_vars

\* One file of two has its outcome and nothing was delivered.
C8_Witness ==
  /\ batch.sub
  /\ Len(batch.jobs) = 2
  /\ batch.jobs[1].res # None
  /\ batch.jobs[2].res = None
  /\ ~ uploadedSeen
  /\ uploadedFiles = <<>>

\* C9 as claimed: the size failure is one of the outcomes racing to be
\* delivered, so the step that starts the validations leaves every file
\* without an outcome.
C9_SizeFailureRaces ==
  [][nsel' # nsel =>
       \A i \in 1..Len(batch'.jobs) : batch'.jobs[i].res = None]_vars

\* C9 amended: a file above the limit has the INVALID_SIZE failure as its
\* outcome from the start of its validation on, whatever its read and decode
\* do later; no other file gets that failure.
C9_SizeFailureFirst ==
  /\ \A i \in 1..Len(batch.jobs) :
       IF Oversize(batch.jobs[i].file)
       THEN batch.jobs[i].res = SizeFailure(nsel, i, batch.jobs[i].file)
       ELSE batch.jobs[i].res.error.errorMessage # "INVALID_SIZE"
  /\ Completed =>
       \A i \in 1..Len(batch.jobs) :
         Oversize(batch.jobs[i].file) =>
           uploadedFiles[i] = SizeFailure(nsel, i, batch.jobs[i].file)

\* The decode of a file above the limit succeeded and the delivered entry is
\* the size failure.
C9_Witness ==
  /\ Completed
  /\ \E i \in 1..Len(batch.jobs) :
       /\ Oversize(batch.jobs[i].file)
       /\ batch.jobs[i].st = "decoded"
       /\ uploadedFiles[i].error.errorMessage = "INVALID_SIZE"

\* C10: for a file not above the limit, a failed read gives INVALID_FILE, a
\* type outside image/* gives INVALID_IMAGE without a decode, a failed decode
\* gives INVALID_IMAGE, a successful decode gives Success with the file.
C10_PerFileOutcome ==
  \A i \in 1..Len(batch.jobs) :
    LET job == batch.jobs[i]
        image == IsImageMime(FileType(job.file))
    IN ~ Oversize(job.file) =>
         /\ job.st \in {"reading", "decoding"} => job.res = None
         /\ job.st = "readFailed" => job.res = FileFailure(nsel, i, job.file)
         /\ ~ image => job.st \in {"reading", "readFailed", "notImage"}
         /\ job.st = "notImage" =>
              ~ image /\ job.res = ImageFailure(nsel, i, job.file)
         /\ job.st = "decodeFailed" => job.res = ImageFailure(nsel, i, job.file)
         /\ job.st = "decoded" => job.res = Success(nsel, i, job.file)

\* C11: removing an entry that is already removed leaves files$ as it was; an
\* entry in the removed set never comes back into files$ or out of the removed
\* set; and a later batch holds new entries, none of them excluded by an
\* earlier removal, even when it selects the same file again.
C11_RemovalPermanent ==
  [][/\ (/\ removedFiles' # removedFiles
         /\ removedFiles'[Len(removedFiles')] \in Range(removedFiles)) =>
          files' = files
     /\ Range(removedFiles) \subseteq Range(removedFiles')
     /\ Range(files') \cap Range(removedFiles') = {}
     /\ uploadedFiles' # uploadedFiles =>
          /\ Range(uploadedFiles') \cap Range(removedFiles') = {}
          /\ files' = uploadedFiles']_vars

\* An entry was removed twice, its file was selected again, and the entry of
\* the second selection is in files$.
C11_Witness ==
  /\ Len(removedFiles) = 2
  /\ removedFiles[1] = removedFiles[2]
  /\ removedFiles[1].id[1] = 1
  /\ removedFiles[1].error = NoError
  /\ \E k \in 1..Len(files) :
       /\ files[k].file = removedFiles[1].file
       /\ files[k].id[1] = 2

\* C12: the payload of every call of onFileChanges.emit, from the notifier
\* and from removeInitial alike, holds no entry that carries an error.
C12_OnlySuccessEmitted ==
  \A k \in 1..Len(lastEmit) : lastEmit[k].error = NoError

C14_StartupSuppressed ==
  /\ emitCount > 0 =>
       (uploadedSeen \/ removedFiles # <<>> \/ initialFiles # <<>>)
  /\ prev.has => (uploadedSeen \/ removedFiles # <<>>)

\* The notifier is subscribed, a batch is being validated, every channel holds
\* its start value and nothing was emitted.
C14_Witness ==
  /\ pc = "viewInit"
  /\ batch.sub
  /\ ~ uploadedSeen
  /\ removedFiles = <<>>
  /\ initialFiles = <<>>
  /\ emitCount = 0
  /\ ~ prev.has

\* The entry named by the removal request of this step.
Requested == removedFiles'[Len(removedFiles')]

\* C15 as claimed: a removal request that names an entry carrying an error
\* leaves that entry in files$.
C15_FailureStays ==
  [][(/\ removedFiles' # removedFiles
      /\ Requested.error # NoError
      /\ Requested \in Range(files)) =>
       Requested \in Range(files')]_vars

\* C15 amended: a removal request takes the entry it names out of files$
\* whether or not the entry carries an error, the valid file set is the same
\* before and after the removal of an entry with an error, and such an entry
\* leaves files$ only by its removal or by a new upload batch.
C15_FailureRemovable ==
  [][/\ (removedFiles' # removedFiles /\ Requested.error # NoError) =>
          /\ Requested \notin Range(files')
          /\ SuccessOnly(files') = SuccessOnly(files)
     /\ \A e \in Range(files) :
          (e.error # NoError /\ e \notin Range(files')) =>
             \/ uploadedFiles' # uploadedFiles
             \/ removedFiles' # removedFiles /\ Requested = e]_vars

\* The failed second entry of a batch was removed and the first is left.
C15_Witness ==
  /\ Len(uploadedFiles) = 2
  /\ uploadedFiles[2].error # NoError
  /\ removedFiles = <<uploadedFiles[2]>>
  /\ files = <<uploadedFiles[1]>>

\* C16: every step leaves the removed array as it was or extends it at the
\* end; no step drops or replaces an element of it.
C16_RemovedOnlyGrows ==
  [][/\ Len(removedFiles') >= Len(removedFiles)
     /\ SubSeq(removedFiles', 1, Len(removedFiles)) = removedFiles]_vars

\* Two different entries of the first batch are in the removed array after
\* the second batch was applied.
C16_Witness ==
  /\ Len(removedFiles) = 2
  /\ removedFiles[1] # removedFiles[2]
  /\ removedFiles[1].id[1] = 1
  /\ removedFiles[2].id[1] = 1
  /\ uploadedFiles # <<>>
  /\ uploadedFiles[1].id[1] = 2

\* C17: a step in which the notifier calls onFileChanges.emit is the step of
\* an upload batch or a removal, it makes one call, and the payload is the
\* valid file set of the channels as that step leaves them.
C17_NoStaleEmission ==
  [][prev' # prev =>
       /\ ChannelUpdate
       /\ emitCount' = emitCount + 1
       /\ lastEmit' =
            SuccessOnly(Excluding(IF uploadedFiles' # <<>> THEN uploadedFiles'
                                  ELSE initialFiles', Range(removedFiles')))]_vars

\* The latest call followed the removal of a valid entry of a batch of two
\* and its payload is the one entry left.
C17_Witness ==
  /\ uploadedSeen
  /\ Len(uploadedFiles) = 2
  /\ Len(removedFiles) = 1
  /\ removedFiles[1] = uploadedFiles[1]
  /\ removedFiles[1].error = NoError
  /\ emitCount = 2
  /\ lastEmit = <<uploadedFiles[2]>>

\* C18: whenever uploadedFiles changes, its new value holds entries of the
\* latest selection only and its old value came from an earlier selection; a
\* callback of a batch that a newer selection replaced changes neither
\* uploadedFiles nor files$.
C18_LatestSelectionOnly ==
  [][/\ uploadedFiles' # uploadedFiles =>
          /\ \A k \in 1..Len(uploadedFiles') : uploadedFiles'[k].id[1] = nsel'
          /\ \A k \in 1..Len(uploadedFiles) : uploadedFiles[k].id[1] < nsel'
     /\ (orphans' # orphans /\ nsel' = nsel) =>
          UNCHANGED <<uploadedFiles, uploadedSeen, files>>]_vars

\* The result of the second selection is applied while a file of the first
\* selection, replaced in flight, is still being decoded.
C18_Witness ==
  /\ nsel = 2
  /\ Completed
  /\ uploadedSeen
  /\ uploadedFiles[1].id[1] = 2
  /\ \E o \in orphans : o.id[1] = 1 /\ o.st = "decoding"

\* The last selection the bounds allow is being validated and the component
\* is not destroyed.
LastBatchInFlight == pc = "viewInit" /\ nsel = MaxSelect /\ batch.sub

\* C19: once the last selection is being validated and every read and decode
\* resolves, the batch is eventually applied to uploadedFiles and, unless the
\* component is destroyed, the value last passed to onFileChanges.emit agrees
\* (by file and image data) with the valid entries of the batch.
C19_BatchLiveness ==
  LastBatchInFlight ~>
    /\ Completed
    /\ uploadedFiles = CombineLatest(batch)
    /\ \/ pc = "destroyed"
       \/ prev.has /\ StructEq(prev.val, SuccessOnly(files))

====
